---- MODULE Spec2Model ----
(***************************************************************************)
(* Model of the naive-memory-set crate: MapArea (memory_area.rs),          *)
(* MemorySet (memory_set.rs), MemorySetBuilder (memory_set_builder.rs)     *)
(* and the image loader from_elf (elf.rs).                                 *)
(*                                                                         *)
(* The page table and the frame allocator belong to the page_table crate,  *)
(* an external collaborator.  The page table is modelled as the partial    *)
(* map vpn -> entry that map/unmap/translate expose; the allocator as a    *)
(* stack allocator (recycled frames first, then the next unused frame)     *)
(* that hands out zeroed frames.  Physical memory is observed at the       *)
(* offsets of SampleOffs of every page.  A panic stops the program: the    *)
(* variable panic names its cause and the other variables keep what had    *)
(* been done when it happened.                                             *)
(***************************************************************************)
EXTENDS Integers, Sequences, FiniteSets, TLC

\* ------------------------------------------------------------ bounds
\* highest virtual page number of the modelled address range
MaxVpn == 6
\* number of frames the frame allocator manages
NumFrames == 4
\* virtual pages the callers of install / shrink / grow / remove name
MaxUserVpn == 2
\* areas a space holds at most (install is not called beyond it)
MaxAreas == 2
\* program headers of an image
MaxPh == 2
\* calls made on the spaces in one run
MaxSteps == 5

\* ------------------------------------------------------------ constants
PAGE_SIZE == 4096

\* MapPermission bits (map_permission.rs) and the PTEFlags valid bit
PERM_R == 2
PERM_W == 4
PERM_X == 8
PERM_U == 16
PTE_V == 1

\* xmas_elf::program::Flags bits
PF_X == 1
PF_W == 2
PF_R == 4

Identical == "Identical"
Framed == "Framed"

\* Option::None of a physical page number
NoPpn == 0 - 1
\* the entry translate finds for a page that is not mapped
NoPTE == [valid |-> FALSE, ppn |-> 0, flags |-> 0]
NoPanic == "none"

Spaces == {1, 2}
Vpns == 0 .. MaxVpn

\* the kernel's trampoline: virtual page MaxVpn, a physical page outside
\* the allocator's pool; the trap context sits one page below it
TrampolineVa == MaxVpn * PAGE_SIZE
TrampolinePa == (MaxVpn + 1) * PAGE_SIZE
TrapCxVa == TrampolineVa - PAGE_SIZE

\* the allocator's pool: frames FrameBase .. FrameEnd - 1
FrameBase == MaxVpn + 2
FrameEnd == FrameBase + NumFrames
Frames == FrameBase .. (FrameEnd - 1)
Ppns == 0 .. (FrameEnd - 1)

\* offsets of a page at which its bytes are observed
SampleOffs == {0, PAGE_SIZE - 1}
ZeroPage == [o \in SampleOffs |-> 0]

Min(a, b) == IF a <= b THEN a ELSE b
Max(a, b) == IF a >= b THEN a ELSE b

\* ------------------------------------------------------------ bit flags
HasBit(bits, b) == (bits \div b) % 2 = 1
BitOr(bits, b) == IF HasBit(bits, b) THEN bits ELSE bits + b

\* ------------------------------------------------------------ addresses
\* VirtAddr::from(usize) keeps the low 39 bits of the address: every address
\* of the model lies below 2^31, where that leaves the address as it is
VirtAddr_from(v) == v
floor(va) == va \div PAGE_SIZE
ceil(va) == IF va = 0 THEN 0 ELSE (va - 1 + PAGE_SIZE) \div PAGE_SIZE
page_offset(va) == va % PAGE_SIZE
VirtAddr_from_vpn(vpn) == vpn * PAGE_SIZE

\* ------------------------------------------------------------ bytes
\* Byte i of a data slice [elf, off |-> o, len |-> n] is the byte at
\* position o + i of the buffer the slice was cut from: SourceByte for a
\* buffer of the caller, ElfByte for the image handed to from_elf.
SourceByte(pos) == (pos % 2) + 1
\* an image that passed the magic check starts with 0x7f 'E' 'L' 'F'; the
\* segments of the images loaded here are cut from these bytes
ElfMagic == <<127, 69, 76, 70>>
ElfByte(pos) == ElfMagic[pos + 1]
DataByte(data, i) == IF data.elf THEN ElfByte(data.off + i) ELSE SourceByte(data.off + i)

\* ------------------------------------------------------------ frame allocator
\* fa = [current, recycled]: frames below current have been handed out
\* once; recycled is the stack of released frames.
frame_allocator_init == [current |-> FrameBase, recycled |-> <<>>]

InSeq(x, s) == \E i \in 1 .. Len(s) : s[i] = x

AllocatedFrames(fa) == {f \in Frames : f < fa.current /\ ~InSeq(f, fa.recycled)}

\* frame_alloc: Option<FrameTracker>; the frame's bytes are cleared
frame_alloc(fa, mem) ==
    IF Len(fa.recycled) > 0
    THEN LET ppn == fa.recycled[Len(fa.recycled)]
         IN [ppn |-> ppn,
             fa |-> [fa EXCEPT !.recycled = SubSeq(fa.recycled, 1, Len(fa.recycled) - 1)],
             mem |-> [mem EXCEPT ![ppn] = ZeroPage]]
    ELSE IF fa.current = FrameEnd
    THEN [ppn |-> NoPpn, fa |-> fa, mem |-> mem]
    ELSE [ppn |-> fa.current,
          fa |-> [fa EXCEPT !.current = fa.current + 1],
          mem |-> [mem EXCEPT ![fa.current] = ZeroPage]]

\* frame_dealloc (the drop of a FrameTracker): panics on a frame that is
\* not allocated
frame_dealloc(c, ppn) ==
    IF c.panic # NoPanic THEN c
    ELSE IF ppn \notin AllocatedFrames(c.fa)
    THEN [c EXCEPT !.panic = "frame_dealloc"]
    ELSE [c EXCEPT !.fa.recycled = Append(c.fa.recycled, ppn)]

\* ------------------------------------------------------------ page table
\* pt: the entries of the table, a function on the pages that are mapped,
\* each entry [valid |-> TRUE, ppn, flags]; a page it does not hold is NoPTE;
\* translate's Option is Some exactly when the entry is valid
PageTable_new == << >>

PageTable_translate(pt, vpn) == IF vpn \in DOMAIN pt THEN pt[vpn] ELSE NoPTE

\* PageTable::map: the entry must not be valid yet
PageTable_map(c, vpn, ppn, flags) ==
    IF c.panic # NoPanic THEN c
    ELSE IF PageTable_translate(c.pt, vpn).valid THEN [c EXCEPT !.panic = "map_mapped"]
    ELSE [c EXCEPT !.pt =
            [v \in (DOMAIN c.pt) \cup {vpn} |->
                IF v = vpn
                THEN [valid |-> TRUE, ppn |-> ppn, flags |-> BitOr(flags, PTE_V)]
                ELSE c.pt[v]]]

\* PageTable::unmap: the entry must be valid
PageTable_unmap(c, vpn) ==
    IF c.panic # NoPanic THEN c
    ELSE IF ~PageTable_translate(c.pt, vpn).valid
    THEN [c EXCEPT !.panic = "unmap_unmapped"]
    ELSE [c EXCEPT !.pt = [v \in (DOMAIN c.pt) \ {vpn} |-> c.pt[v]]]

\* ------------------------------------------------------------ MapArea
\* area = [start, end, data_frames, map_type, map_perm]; data_frames is the
\* BTreeMap vpn -> frame, a function on the vpns it holds.
\* The MapArea operations work on a context
\*   c = [area, pt, fa, mem, panic]
\* (the area, the page table it is given, the allocator and memory).

\* VPNRange::new asserts start <= end
VPNRange_ok(start, end) == start <= end

MapArea_new(start_va, end_va, map_type, map_perm) ==
    [start |-> floor(start_va), end |-> ceil(end_va), data_frames |-> << >>,
     map_type |-> map_type, map_perm |-> map_perm]

from_another(another) ==
    [start |-> another.start, end |-> another.end, data_frames |-> << >>,
     map_type |-> another.map_type, map_perm |-> another.map_perm]

\* BTreeMap::insert: a frame already held for the key is dropped
data_frames_insert(c, vpn, ppn) ==
    LET df == c.area.data_frames
        c1 == IF vpn \in DOMAIN df THEN frame_dealloc(c, df[vpn]) ELSE c
    IN [c1 EXCEPT !.area.data_frames =
            [v \in (DOMAIN df) \cup {vpn} |-> IF v = vpn THEN ppn ELSE df[v]]]

\* BTreeMap::remove: the frame held for the key, if any, is dropped
data_frames_remove(c, vpn) ==
    LET df == c.area.data_frames
    IN IF vpn \in DOMAIN df
       THEN [frame_dealloc(c, df[vpn]) EXCEPT !.area.data_frames =
                [v \in (DOMAIN df) \ {vpn} |-> df[v]]]
       ELSE c

map_one(c, vpn) ==
    IF c.panic # NoPanic THEN c
    ELSE IF c.area.map_type = Identical
    THEN PageTable_map(c, vpn, vpn, c.area.map_perm)
    ELSE LET r == frame_alloc(c.fa, c.mem)
         IN IF r.ppn = NoPpn
            THEN [c EXCEPT !.panic = "frame_alloc"]
            ELSE PageTable_map(
                    data_frames_insert([c EXCEPT !.fa = r.fa, !.mem = r.mem], vpn, r.ppn),
                    vpn, r.ppn, c.area.map_perm)

\* unmap_one that forgets to give the frame back
unmap_one_keeps_frame(c, vpn) ==
    IF c.panic # NoPanic THEN c ELSE PageTable_unmap(c, vpn)

unmap_one(c, vpn) ==
    IF c.panic # NoPanic THEN c
    ELSE PageTable_unmap(
            IF c.area.map_type = Framed THEN data_frames_remove(c, vpn) ELSE c,
            vpn)

\* for vpn in VPNRange(vpn, end) { map_one }
RECURSIVE map_range(_, _, _)
map_range(c, vpn, end) ==
    IF vpn >= end \/ c.panic # NoPanic THEN c
    ELSE map_range(map_one(c, vpn), vpn + 1, end)

\* for vpn in VPNRange(vpn, end) { unmap_one }
RECURSIVE unmap_range(_, _, _)
unmap_range(c, vpn, end) ==
    IF vpn >= end \/ c.panic # NoPanic THEN c
    ELSE unmap_range(unmap_one(c, vpn), vpn + 1, end)

MapArea_map(c) == map_range(c, c.area.start, c.area.end)

MapArea_unmap(c) == unmap_range(c, c.area.start, c.area.end)

\* shrink_to that narrows the range without unmapping the pages that leave
MapArea_shrink_to_no_unmap(c, new_end) ==
    IF c.panic # NoPanic THEN c
    ELSE IF ~VPNRange_ok(new_end, c.area.end) \/ ~VPNRange_ok(c.area.start, new_end)
    THEN [c EXCEPT !.panic = "vpn_range"]
    ELSE [c EXCEPT !.area.end = new_end]

MapArea_shrink_to(c, new_end) ==
    IF c.panic # NoPanic THEN c
    ELSE IF ~VPNRange_ok(new_end, c.area.end)
    THEN [c EXCEPT !.panic = "vpn_range"]
    ELSE LET c1 == unmap_range(c, new_end, c.area.end)
         IN IF c1.panic # NoPanic THEN c1
            ELSE IF ~VPNRange_ok(c1.area.start, new_end)
            THEN [c1 EXCEPT !.panic = "vpn_range"]
            ELSE [c1 EXCEPT !.area.end = new_end]

\* append_to that widens the range without mapping the new pages
MapArea_append_to_no_map(c, new_end) ==
    IF c.panic # NoPanic THEN c
    ELSE IF ~VPNRange_ok(c.area.end, new_end)
    THEN [c EXCEPT !.panic = "vpn_range"]
    ELSE [c EXCEPT !.area.end = new_end]

MapArea_append_to(c, new_end) ==
    IF c.panic # NoPanic THEN c
    ELSE IF ~VPNRange_ok(c.area.end, new_end)
    THEN [c EXCEPT !.panic = "vpn_range"]
    ELSE LET c1 == map_range(c, c.area.end, new_end)
         IN IF c1.panic # NoPanic THEN c1
            ELSE IF ~VPNRange_ok(c1.area.start, new_end)
            THEN [c1 EXCEPT !.panic = "vpn_range"]
            ELSE [c1 EXCEPT !.area.end = new_end]

\* a copy that always fills the whole page, the rest of the slice or not
copy_page_whole(mem, ppn, data, start, n) ==
    [mem EXCEPT ![ppn] = [o \in SampleOffs |-> DataByte(data, start + o)]]

\* dst[..src.len()].copy_from_slice(src), src = data[start .. start + n)
copy_page(mem, ppn, data, start, n) ==
    [mem EXCEPT ![ppn] =
        [o \in SampleOffs |-> IF o < n THEN DataByte(data, start + o) ELSE mem[ppn][o]]]

RECURSIVE copy_loop(_, _, _, _)
copy_loop(c, data, start, current_vpn) ==
    LET n == Min(data.len, start + PAGE_SIZE) - start
        pte == PageTable_translate(c.pt, current_vpn)
    IN IF ~pte.valid
       THEN [c EXCEPT !.panic = "copy_data_unwrap"]
       ELSE LET c1 == [c EXCEPT !.mem = copy_page(c.mem, pte.ppn, data, start, n)]
            IN IF start + PAGE_SIZE >= data.len
               THEN c1
               ELSE copy_loop(c1, data, start + PAGE_SIZE, current_vpn + 1)

copy_data(c, data) ==
    IF c.panic # NoPanic THEN c
    ELSE IF c.area.map_type # Framed
    THEN [c EXCEPT !.panic = "copy_data_assert"]
    ELSE copy_loop(c, data, 0, c.area.start)

\* the drop of a MapArea: its frames are released in key order
RECURSIVE drop_frames(_, _, _)
drop_frames(w, df, keys) ==
    IF keys = {} THEN w
    ELSE LET k == CHOOSE x \in keys : \A y \in keys : x <= y
         IN drop_frames(frame_dealloc(w, df[k]), df, keys \ {k})

drop_area(w, area) == drop_frames(w, area.data_frames, DOMAIN area.data_frames)

\* ------------------------------------------------------------ MemorySet
\* ms = [live, page_table, areas]; live is FALSE for a space that does not
\* exist.  The MemorySet operations work on a world
\*   w = [ms, fa, mem, panic].
NoData == [some |-> FALSE, elf |-> FALSE, off |-> 0, len |-> 0]
SomeData(off, len) == [some |-> TRUE, elf |-> FALSE, off |-> off, len |-> len]
\* the slice elf.input[off .. off + len) of the image
ElfData(off, len) == [some |-> TRUE, elf |-> TRUE, off |-> off, len |-> len]

NoSpace == [live |-> FALSE, page_table |-> PageTable_new, areas |-> << >>]

new_bare == [live |-> TRUE, page_table |-> PageTable_new, areas |-> << >>]

World(ms, fa, mem) == [ms |-> ms, fa |-> fa, mem |-> mem, panic |-> NoPanic]

\* the MapArea context of a call that passes &mut self.page_table
Ctx(w, area) ==
    [area |-> area, pt |-> w.ms.page_table, fa |-> w.fa, mem |-> w.mem,
     panic |-> w.panic]

\* the world after a MapArea call that worked on context c
Back(w, c) ==
    [w EXCEPT !.ms.page_table = c.pt, !.fa = c.fa, !.mem = c.mem, !.panic = c.panic]

translate(ms, vpn) == PageTable_translate(ms.page_table, vpn)

push(w, map_area, data) ==
    IF w.panic # NoPanic THEN w
    ELSE LET c1 == MapArea_map(Ctx(w, map_area))
             c2 == IF data.some THEN copy_data(c1, data) ELSE c1
             w2 == Back(w, c2)
         IN IF c2.panic # NoPanic THEN w2
            ELSE [w2 EXCEPT !.ms.areas = Append(@, c2.area)]

\* MapArea::new followed by push, as every caller does
push_new(w, start_va, end_va, map_type, map_perm, data) ==
    IF w.panic # NoPanic THEN w
    ELSE IF ~VPNRange_ok(floor(start_va), ceil(end_va))
    THEN [w EXCEPT !.panic = "vpn_range"]
    ELSE push(w, MapArea_new(start_va, end_va, map_type, map_perm), data)

insert_framed_area(w, start_va, end_va, permission) ==
    push_new(w, start_va, end_va, Framed, permission, NoData)

\* index of the first area that starts at start_vpn, 0 when there is none
find_area(areas, start_vpn) ==
    LET hits == {i \in 1 .. Len(areas) : areas[i].start = start_vpn}
    IN IF hits = {} THEN 0 ELSE CHOOSE i \in hits : \A j \in hits : i <= j

RemoveAt(seq, idx) == SubSeq(seq, 1, idx - 1) \o SubSeq(seq, idx + 1, Len(seq))

remove_area_with_start_vpn(w, start_vpn) ==
    LET idx == find_area(w.ms.areas, start_vpn)
    IN IF w.panic # NoPanic \/ idx = 0 THEN w
       ELSE LET c == MapArea_unmap(Ctx(w, w.ms.areas[idx]))
                w1 == Back(w, c)
            IN IF c.panic # NoPanic THEN w1
               ELSE drop_area([w1 EXCEPT !.ms.areas = RemoveAt(@, idx)], c.area)

\* Vec::clear drops the areas in order
RECURSIVE drop_areas(_, _, _)
drop_areas(w, areas, i) ==
    IF i > Len(areas) THEN w
    ELSE drop_areas(drop_area(w, areas[i]), areas, i + 1)

\* recycle_data_pages that also starts the page table afresh
recycle_data_pages_new_table(w) ==
    IF w.panic # NoPanic THEN w
    ELSE drop_areas([w EXCEPT !.ms.areas = << >>, !.ms.page_table = PageTable_new],
                    w.ms.areas, 1)

recycle_data_pages(w) ==
    IF w.panic # NoPanic THEN w
    ELSE drop_areas([w EXCEPT !.ms.areas = << >>], w.ms.areas, 1)

\* PTEFlags::R | PTEFlags::X
TrampolineFlags == BitOr(BitOr(0, PERM_R), PERM_X)

map_trampoline(w, vpn, ppn) ==
    Back(w, PageTable_map(Ctx(w, << >>), vpn, ppn, TrampolineFlags))

\* [w, ret]: the world after the call and the bool it returns
MemorySet_shrink_to(w, start, new_end) ==
    LET idx == find_area(w.ms.areas, floor(start))
    IN IF idx = 0 THEN [w |-> w, ret |-> FALSE]
       ELSE LET c == MapArea_shrink_to(Ctx(w, w.ms.areas[idx]), ceil(new_end))
            IN [w |-> [Back(w, c) EXCEPT !.ms.areas[idx] = c.area], ret |-> TRUE]

MemorySet_append_to(w, start, new_end) ==
    LET idx == find_area(w.ms.areas, floor(start))
    IN IF idx = 0 THEN [w |-> w, ret |-> FALSE]
       ELSE LET c == MapArea_append_to(Ctx(w, w.ms.areas[idx]), ceil(new_end))
            IN [w |-> [Back(w, c) EXCEPT !.ms.areas[idx] = c.area], ret |-> TRUE]

\* VirtAddr -> VirtPageNum and PhysAddr -> PhysPageNum assert page alignment
aligned_page(w, addr) ==
    IF w.panic = NoPanic /\ page_offset(addr) # 0
    THEN [w EXCEPT !.panic = "unaligned"] ELSE w

\* dst_ppn.get_bytes_array().copy_from_slice(src_ppn.get_bytes_array())
\* the copy loop left out: the clone's pages keep their zeroes
copy_pages_skipped(w, user_space, vpn, end) == w

RECURSIVE copy_pages(_, _, _, _)
copy_pages(w, user_space, vpn, end) ==
    IF vpn >= end \/ w.panic # NoPanic THEN w
    ELSE LET src == translate(user_space, vpn)
             dst == translate(w.ms, vpn)
         IN IF ~src.valid \/ ~dst.valid
            THEN [w EXCEPT !.panic = "translate_unwrap"]
            ELSE copy_pages([w EXCEPT !.mem[dst.ppn] = w.mem[src.ppn]],
                            user_space, vpn + 1, end)

RECURSIVE clone_areas(_, _, _)
clone_areas(w, user_space, i) ==
    IF i > Len(user_space.areas) \/ w.panic # NoPanic THEN w
    ELSE LET area == user_space.areas[i]
             w1 == push(w, from_another(area), NoData)
         IN clone_areas(copy_pages(w1, user_space, area.start, area.end),
                        user_space, i + 1)

from_existed_user(user_space, fa, mem, trampline_start_va, trampline_start_pa) ==
    LET w0 == World(new_bare, fa, mem)
        w1 == aligned_page(aligned_page(w0, trampline_start_va), trampline_start_pa)
        w2 == IF w1.panic # NoPanic THEN w1
              ELSE map_trampoline(w1, floor(VirtAddr_from(trampline_start_va)),
                                  floor(trampline_start_pa))
    IN clone_areas(w2, user_space, 1)

\* ------------------------------------------------------------ MemorySetBuilder
\* the builder wraps the MemorySet under construction: a world
MemorySetBuilder_new(fa, mem) == World(new_bare, fa, mem)

push_identical(w, start_va, end_va, map_perm) ==
    push_new(w, VirtAddr_from(start_va), VirtAddr_from(end_va), Identical, map_perm, NoData)

push_framed(w, start_va, end_va, map_perm) ==
    push_new(w, VirtAddr_from(start_va), VirtAddr_from(end_va), Framed, map_perm, NoData)

push_framed_with_data(w, start_va, end_va, map_perm, data) ==
    push_new(w, VirtAddr_from(start_va), VirtAddr_from(end_va), Framed, map_perm, data)

Builder_map_trampoline(w, va, pa) ==
    LET w1 == aligned_page(aligned_page(w, va), pa)
    IN IF w1.panic # NoPanic THEN w1
       ELSE map_trampoline(w1, floor(VirtAddr_from(va)), floor(pa))

build(w) == w

\* ------------------------------------------------------------ image loader
\* elf = [parse_ok, magic_ok, entry, input_len, phs]: what xmas_elf reads
\* from the image; parse_ok: ElfFile::new succeeds; magic_ok: the magic is
\* 0x7f 'E' 'L' 'F'.  A program header is
\*   [readable, load, vaddr, mem_size, offset, file_size, flags]
\* (readable: program_header(i) and get_type succeed; load: Type::Load).
get_map_perm(ph_flags) ==
    LET u == PERM_U
        r == IF HasBit(ph_flags, PF_R) THEN BitOr(u, PERM_R) ELSE u
        rw == IF HasBit(ph_flags, PF_W) THEN BitOr(r, PERM_W) ELSE r
    IN IF HasBit(ph_flags, PF_X) THEN BitOr(rw, PERM_X) ELSE rw

\* one turn of the loop over the program headers: [w, max_end_vpn]
load_segment(w, elf, ph, max_end_vpn) ==
    IF ~ph.readable
    THEN [w |-> [w EXCEPT !.panic = "elf_program_header"], max_end_vpn |-> max_end_vpn]
    ELSE IF ~ph.load THEN [w |-> w, max_end_vpn |-> max_end_vpn]
    ELSE LET start_va == VirtAddr_from(ph.vaddr)
             end_va == VirtAddr_from(ph.vaddr + ph.mem_size)
             map_perm == get_map_perm(ph.flags)
             map_area == MapArea_new(start_va, end_va, Framed, map_perm)
         IN IF ~VPNRange_ok(map_area.start, map_area.end)
            THEN [w |-> [w EXCEPT !.panic = "vpn_range"], max_end_vpn |-> max_end_vpn]
            ELSE IF ph.offset + ph.file_size > elf.input_len
            THEN [w |-> [w EXCEPT !.panic = "slice_index"], max_end_vpn |-> map_area.end]
            ELSE [w |-> push_framed_with_data(w, start_va, end_va, map_perm,
                                              ElfData(ph.offset, ph.file_size)),
                  max_end_vpn |-> map_area.end]

\* the loop over the program headers.  (CHOOSE over a one-element set
\* binds r to the value of the turn, so that it is computed once.)
RECURSIVE load_segments(_, _, _, _)
load_segments(w, elf, i, max_end_vpn) ==
    IF i > Len(elf.phs) \/ w.panic # NoPanic
    THEN [w |-> w, max_end_vpn |-> max_end_vpn]
    ELSE CHOOSE out \in {load_segments(r.w, elf, i + 1, r.max_end_vpn) :
                            r \in {load_segment(w, elf, elf.phs[i], max_end_vpn)}} : TRUE

PermRWU == BitOr(BitOr(BitOr(0, PERM_R), PERM_W), PERM_U)
\* the trap context's permission with the User bit added
PermRW_user == BitOr(BitOr(BitOr(0, PERM_R), PERM_W), PERM_U)
PermRW == BitOr(BitOr(0, PERM_R), PERM_W)

\* the areas pushed after the segments: the user stack, the empty area at
\* the stack top and the trap context; r is what the loop left
push_stack_and_trap_cx(r, trampline_start_va, trap_cx_start_va, user_stack_size) ==
    LET max_end_va == VirtAddr_from_vpn(r.max_end_vpn)
        user_stack_bottom == max_end_va + PAGE_SIZE
        user_stack_top == user_stack_bottom + user_stack_size
    IN CHOOSE out \in
        {[w |-> build(b4), user_sp |-> user_stack_top] :
            b4 \in {push_framed(b3, trap_cx_start_va, trampline_start_va, PermRW) :
            b3 \in {push_framed(b2, user_stack_top, user_stack_top, PermRWU) :
            b2 \in {push_framed(r.w, user_stack_bottom, user_stack_top, PermRWU)}}}} : TRUE

\* [w, user_sp, entry]: the MemorySet (in w), the stack top and the entry
from_elf(elf, trampline_start_va, trampline_start_pa, trap_cx_start_va, user_stack_size, fa, mem) ==
    LET b0 == Builder_map_trampoline(MemorySetBuilder_new(fa, mem),
                                     trampline_start_va, trampline_start_pa)
        b1 == IF b0.panic # NoPanic THEN b0
              ELSE IF ~elf.parse_ok THEN [b0 EXCEPT !.panic = "elf_new"]
              ELSE IF ~elf.magic_ok THEN [b0 EXCEPT !.panic = "invalid elf!"]
              ELSE b0
    IN CHOOSE out \in
        {[w |-> s.w, user_sp |-> s.user_sp, entry |-> elf.entry] :
            s \in {push_stack_and_trap_cx(r, trampline_start_va, trap_cx_start_va,
                                          user_stack_size) :
            r \in {load_segments(b1, elf, 1, 0)}}} : TRUE

\* ------------------------------------------------------------ state
VARIABLES
    memory_sets,      \* [Spaces -> ms]: the MemorySets that exist
    frame_allocator,  \* the frame allocator all spaces share
    phys_mem,         \* [Ppns -> [SampleOffs -> byte]]
    panic,            \* NoPanic, or the cause of the panic that stopped the program
    ret,              \* what the last call returned
    image,            \* the image and stack size handed to from_elf
    steps             \* number of calls made so far

vars == <<memory_sets, frame_allocator, phys_mem, panic, ret, image, steps>>

\* ------------------------------------------------------------ inputs
UserAddrs == {v * PAGE_SIZE : v \in 0 .. (MaxUserVpn + 1)} \cup {1}
UserVpns == 0 .. (MaxUserVpn + 1)
PermRXU == BitOr(BitOr(BitOr(0, PERM_R), PERM_X), PERM_U)
\* the kinds of area the callers install: policy and permission
KindChoices ==
    {[map_type |-> Framed, map_perm |-> PermRWU],
     [map_type |-> Framed, map_perm |-> PermRXU],
     [map_type |-> Identical, map_perm |-> PermRW]}
DataChoices == {NoData, SomeData(1, PAGE_SIZE)}
\* the byte a store writes: none that a frame holds after frame_alloc or copy_data
ByteChoices == {3}

NoImage ==
    [elf |-> [parse_ok |-> FALSE, magic_ok |-> FALSE, entry |-> 0, input_len |-> 0,
              phs |-> << >>],
     user_stack_size |-> 0]

\* ------------------------------------------------------------ actions
WorldOf(s) == World(memory_sets[s], frame_allocator, phys_mem)

Commit(s, w, r) ==
    /\ memory_sets' = [memory_sets EXCEPT ![s] = w.ms]
    /\ frame_allocator' = w.fa
    /\ phys_mem' = w.mem
    /\ panic' = w.panic
    /\ ret' = r
    /\ steps' = steps + 1
    /\ UNCHANGED image

\* a call can be made: the program has not panicked
Ready == panic = NoPanic /\ steps < MaxSteps

Running(s) == Ready /\ memory_sets[s].live

\* space s can be created: the spaces are created in the order of their ids
Creatable(s) ==
    /\ Ready
    /\ ~memory_sets[s].live
    /\ \A t \in Spaces : t < s => memory_sets[t].live

\* MemorySet::new_bare
NewBare(s) ==
    /\ Creatable(s)
    /\ Commit(s, World(new_bare, frame_allocator, phys_mem), [op |-> "new_bare"])

\* MemorySet::map_trampoline at the kernel's trampoline page
MapTrampoline(s) ==
    /\ Running(s)
    /\ Commit(s, map_trampoline(WorldOf(s), floor(TrampolineVa), floor(TrampolinePa)),
              [op |-> "map_trampoline"])

\* install: MapArea::new and MemorySet::push
Install(s, start_va, end_va, map_type, map_perm, data) ==
    /\ Running(s)
    /\ Len(memory_sets[s].areas) < MaxAreas
    /\ Commit(s, push_new(WorldOf(s), start_va, end_va, map_type, map_perm, data),
              [op |-> "push"])

\* remove_by_start
RemoveByStart(s, start_vpn) ==
    /\ Running(s)
    /\ Commit(s, remove_area_with_start_vpn(WorldOf(s), start_vpn),
              [op |-> "remove_area_with_start_vpn"])

\* shrink_area
ShrinkArea(s, start, new_end) ==
    /\ Running(s)
    /\ LET r == MemorySet_shrink_to(WorldOf(s), start, new_end)
       IN Commit(s, r.w, [op |-> "shrink_to", ok |-> r.ret])

\* grow_area
GrowArea(s, start, new_end) ==
    /\ Running(s)
    /\ LET r == MemorySet_append_to(WorldOf(s), start, new_end)
       IN Commit(s, r.w, [op |-> "append_to", ok |-> r.ret])

\* drop_all_areas
DropAllAreas(s) ==
    /\ Running(s)
    /\ Commit(s, recycle_data_pages(WorldOf(s)), [op |-> "recycle_data_pages"])

\* clone_from: the clone becomes space dst
CloneFrom(src, dst) ==
    /\ Running(src)
    /\ Creatable(dst)
    /\ Commit(dst, from_existed_user(memory_sets[src], frame_allocator, phys_mem,
                                     TrampolineVa, TrampolinePa),
              [op |-> "from_existed_user", src |-> src, dst |-> dst])

\* a store of one byte through space s: translate(vpn), then the frame's
\* byte array at off
WriteByte(s, vpn, off, b) ==
    /\ Running(s)
    /\ translate(memory_sets[s], vpn).valid
    /\ phys_mem' = [phys_mem EXCEPT ![translate(memory_sets[s], vpn).ppn][off] = b]
    /\ ret' = [op |-> "write"]
    /\ steps' = steps + 1
    /\ UNCHANGED <<memory_sets, frame_allocator, panic, image>>

\* load_program: from_elf on the image
LoadProgram(s, img) ==
    /\ Creatable(s)
    /\ image' = img
    /\ LET r == from_elf(img.elf, TrampolineVa, TrampolinePa, TrapCxVa,
                         img.user_stack_size, frame_allocator, phys_mem)
       IN /\ memory_sets' = [memory_sets EXCEPT ![s] = r.w.ms]
          /\ frame_allocator' = r.w.fa
          /\ phys_mem' = r.w.mem
          /\ panic' = r.w.panic
          /\ ret' = [op |-> "from_elf", user_sp |-> r.user_sp, entry |-> r.entry]
          /\ steps' = steps + 1

Init ==
    /\ memory_sets = [s \in Spaces |-> NoSpace]
    /\ frame_allocator = frame_allocator_init
    /\ phys_mem = [p \in Ppns |-> ZeroPage]
    /\ panic = NoPanic
    /\ ret = [op |-> "init"]
    /\ image = NoImage
    /\ steps = 0

Next ==
    \/ \E s \in Spaces : NewBare(s)
    \/ \E s \in Spaces : MapTrampoline(s)
    \/ \E s \in Spaces, start_va \in UserAddrs, end_va \in UserAddrs,
          kind \in KindChoices, data \in DataChoices :
            Install(s, start_va, end_va, kind.map_type, kind.map_perm, data)
    \/ \E s \in Spaces, start_vpn \in UserVpns : RemoveByStart(s, start_vpn)
    \/ \E s \in Spaces, start \in UserAddrs, new_end \in UserAddrs :
            ShrinkArea(s, start, new_end)
    \/ \E s \in Spaces, start \in UserAddrs, new_end \in UserAddrs :
            GrowArea(s, start, new_end)
    \/ \E s \in Spaces : DropAllAreas(s)
    \/ \E src \in Spaces, dst \in Spaces : CloneFrom(src, dst)
    \/ \E s \in Spaces, vpn \in Vpns, off \in SampleOffs, b \in ByteChoices :
            WriteByte(s, vpn, off, b)

Spec == Init /\ [][Next]_vars

\* ------------------------------------------------------------ loading an image
\* the images handed to load_program: up to MaxPh program headers, each a
\* load segment of one or two pages at one of the pages of LoadVpns, a
\* header of another type, or one that cannot be read
LoadVpns == 1 .. (MaxVpn - 2)
PF_RX == BitOr(BitOr(0, PF_R), PF_X)
PF_RW == BitOr(BitOr(0, PF_R), PF_W)
InputLen == 2 * PAGE_SIZE

LoadPh(vaddr, mem_size, file_size, flags) ==
    [readable |-> TRUE, load |-> TRUE, vaddr |-> vaddr, mem_size |-> mem_size,
     offset |-> 0, file_size |-> file_size, flags |-> flags]
OtherPh == [LoadPh(0, 0, 0, 0) EXCEPT !.load = FALSE]
UnreadablePh == [LoadPh(0, 0, 0, 0) EXCEPT !.readable = FALSE]

PhChoices ==
    {LoadPh(v * PAGE_SIZE, m, f, fl) :
        v \in LoadVpns, m \in {PAGE_SIZE, PAGE_SIZE + 1}, f \in {0, 1},
        fl \in {PF_RX, PF_RW}}
    \cup {OtherPh, UnreadablePh}

PhSeqs ==
    {<< >>} \cup {<<a>> : a \in PhChoices} \cup {<<a, b>> : a \in PhChoices, b \in PhChoices}

HeaderChoices ==
    {[parse_ok |-> TRUE, magic_ok |-> TRUE],
     [parse_ok |-> TRUE, magic_ok |-> FALSE],
     [parse_ok |-> FALSE, magic_ok |-> FALSE]}

Images ==
    {[elf |-> [parse_ok |-> h.parse_ok, magic_ok |-> h.magic_ok, entry |-> e,
               input_len |-> InputLen, phs |-> phs],
      user_stack_size |-> ss] :
        h \in HeaderChoices, e \in {PAGE_SIZE, 2 * PAGE_SIZE + 4}, phs \in PhSeqs,
        ss \in {0, PAGE_SIZE, PAGE_SIZE + 1}}

InitLoad ==
    /\ memory_sets = [s \in Spaces |-> NoSpace]
    /\ frame_allocator = frame_allocator_init
    /\ phys_mem = [p \in Ppns |-> ZeroPage]
    /\ panic = NoPanic
    /\ ret = [op |-> "init"]
    /\ image = NoImage
    /\ steps = 0

NextLoad == \E img \in Images : LoadProgram(1, img)

SpecLoad == InitLoad /\ [][NextLoad]_vars

\* ------------------------------------------------------------ installing areas with data
\* the lengths of the data handed to push: none, one byte, one page, one
\* page and a byte, two pages, two pages and a byte
DataLens == {0, 1, PAGE_SIZE, PAGE_SIZE + 1, 2 * PAGE_SIZE, 2 * PAGE_SIZE + 1}

\* MemorySetBuilder::push_framed_with_data: a Framed area with its bytes;
\* ret keeps the area's first page, its number of pages and the length
InstallData(s, start_va, end_va, map_perm, len) ==
    /\ Running(s)
    /\ Len(memory_sets[s].areas) < MaxAreas
    /\ Commit(s, push_framed_with_data(WorldOf(s), start_va, end_va, map_perm,
                                       SomeData(0, len)),
              [op |-> "push_framed_with_data", start |-> floor(start_va),
               pages |-> Max(ceil(end_va) - floor(start_va), 0), len |-> len])

InitCopy ==
    /\ memory_sets = [s \in Spaces |-> IF s = 1 THEN new_bare ELSE NoSpace]
    /\ frame_allocator = frame_allocator_init
    /\ phys_mem = [p \in Ppns |-> ZeroPage]
    /\ panic = NoPanic
    /\ ret = [op |-> "new_bare"]
    /\ image = NoImage
    /\ steps = 0

NextCopy ==
    \E start_va \in UserAddrs, end_va \in UserAddrs, len \in DataLens :
        InstallData(1, start_va, end_va, PermRWU, len)

SpecCopy == InitCopy /\ [][NextCopy]_vars

\* ------------------------------------------------------------ a loaded space in use
\* the images of the spaces that are used after the load: one segment of a
\* page at page 0, with a stack of no page, of one page, or of a page and
\* a byte
UserImages ==
    {[elf |-> [parse_ok |-> TRUE, magic_ok |-> TRUE, entry |-> 4, input_len |-> InputLen,
               phs |-> <<LoadPh(0, PAGE_SIZE, 1, PF_RW)>>],
      user_stack_size |-> ss] : ss \in {0, PAGE_SIZE, PAGE_SIZE + 1}}

\* the addresses and pages the callers name in a loaded space
LayoutAddrs == {v * PAGE_SIZE : v \in 0 .. (MaxVpn + 1)}

NextUser ==
    \/ \E img \in UserImages : LoadProgram(1, img)
    \/ \E s \in Spaces, start_va \in LayoutAddrs, end_va \in LayoutAddrs,
          kind \in KindChoices :
            Install(s, start_va, end_va, kind.map_type, kind.map_perm, NoData)
    \/ \E s \in Spaces, start_vpn \in Vpns : RemoveByStart(s, start_vpn)
    \/ \E s \in Spaces, start \in LayoutAddrs, new_end \in LayoutAddrs :
            ShrinkArea(s, start, new_end)
    \/ \E s \in Spaces, start \in LayoutAddrs, new_end \in LayoutAddrs :
            GrowArea(s, start, new_end)
    \/ \E s \in Spaces : DropAllAreas(s)
    \/ CloneFrom(1, 2)

SpecUser == Init /\ [][NextUser]_vars

\* ------------------------------------------------------------ observations
AreasOf(s) == memory_sets[s].areas
AreaPages(area) == area.start .. (area.end - 1)
OwnedFrames(area) == {area.data_frames[v] : v \in DOMAIN area.data_frames}
FramesOfAreas(areas) == UNION {OwnedFrames(areas[i]) : i \in 1 .. Len(areas)}
PagesOfAreas(areas) == UNION {AreaPages(areas[i]) : i \in 1 .. Len(areas)}
AllOwnedFrames == UNION {FramesOfAreas(AreasOf(s)) : s \in Spaces}

TrampolineVpn == floor(TrampolineVa)
TrampolinePTE ==
    [valid |-> TRUE, ppn |-> floor(TrampolinePa), flags |-> BitOr(TrampolineFlags, PTE_V)]

\* the permission bits of an entry: its flags without the valid bit
PermOf(pte) == IF HasBit(pte.flags, PTE_V) THEN pte.flags - PTE_V ELSE pte.flags

\* ------------------------------------------------------------ claims

\* C1: no frame of the allocator is the target of the page-table entries of
\* two different pages, in one space or in two.
C1_NoFrameMappedTwice ==
    panic = NoPanic =>
        \A s1 \in Spaces, s2 \in Spaces, v1 \in Vpns, v2 \in Vpns :
            LET p1 == translate(memory_sets[s1], v1)
                p2 == translate(memory_sets[s2], v2)
            IN (p1.valid /\ p2.valid /\ p1.ppn \in Frames /\ p1.ppn = p2.ppn)
                    => (s1 = s2 /\ v1 = v2)

\* C2: every page-table entry of a space belongs to a page in the current
\* range of one of its areas, or is the trampoline mapping.
C2_EveryEntryTraced ==
    panic = NoPanic =>
        \A s \in Spaces, vpn \in Vpns :
            translate(memory_sets[s], vpn).valid =>
                \/ vpn \in PagesOfAreas(AreasOf(s))
                \/ (vpn = TrampolineVpn /\ translate(memory_sets[s], vpn) = TrampolinePTE)

\* C3: drop_all_areas empties the area list, leaves every page that was in
\* the range of an area unmapped, returns the areas' frames to the
\* allocator and leaves the trampoline entry as it was.
C3_DropAllUnmaps ==
    [][\A s \in Spaces :
        DropAllAreas(s) =>
            /\ AreasOf(s)' = << >>
            /\ \A vpn \in PagesOfAreas(AreasOf(s)) :
                    ~translate(memory_sets'[s], vpn).valid
            /\ FramesOfAreas(AreasOf(s)) \cap AllocatedFrames(frame_allocator') = {}
            /\ translate(memory_sets'[s], TrampolineVpn)
                    = translate(memory_sets[s], TrampolineVpn)]_vars

\* the frames an area holds: one per page of its range when Framed, each a
\* different frame, none when Identical
AreaFramesExact(area) ==
    IF area.map_type = Framed
    THEN /\ DOMAIN area.data_frames = AreaPages(area)
         /\ \A v1 \in AreaPages(area), v2 \in AreaPages(area) :
                area.data_frames[v1] = area.data_frames[v2] => v1 = v2
    ELSE DOMAIN area.data_frames = {}

\* no frame is held by two areas, of one space or of two
NoFrameHeldTwice ==
    \A s1 \in Spaces, s2 \in Spaces :
        \A i \in 1 .. Len(AreasOf(s1)), j \in 1 .. Len(AreasOf(s2)) :
            (s1 # s2 \/ i # j) =>
                OwnedFrames(AreasOf(s1)[i]) \cap OwnedFrames(AreasOf(s2)[j]) = {}

NoDuplicates(seq) == \A i \in 1 .. Len(seq), j \in 1 .. Len(seq) : seq[i] = seq[j] => i = j

C4_Accounting ==
    /\ panic # "frame_dealloc"
    /\ NoDuplicates(frame_allocator.recycled)
    /\ panic = NoPanic =>
        /\ AllocatedFrames(frame_allocator) = AllOwnedFrames
        /\ NoFrameHeldTwice
        /\ \A s \in Spaces : \A i \in 1 .. Len(AreasOf(s)) : AreaFramesExact(AreasOf(s)[i])

\* the pages that left the ranges of the areas of space s in this step, and
\* the frames that backed them
PagesLeft(s) == PagesOfAreas(AreasOf(s)) \ PagesOfAreas(AreasOf(s)')
FramesLeft(s) == FramesOfAreas(AreasOf(s)) \ FramesOfAreas(AreasOf(s)')

\* a step of RemoveByStart or ShrinkArea that returned (ret names the call)
C4_Release ==
    (ret'.op \in {"remove_area_with_start_vpn", "shrink_to"} /\ panic' = NoPanic)
        => \A s \in Spaces :
            /\ \A vpn \in PagesLeft(s) : ~translate(memory_sets'[s], vpn).valid
            /\ \A f \in FramesLeft(s) : InSeq(f, frame_allocator'.recycled)

\* C4: the frames allocated are exactly the frames the live areas hold, one
\* per page of each Framed area and none for an Identical one; a page that
\* leaves a range by remove_by_start or shrink_to is unmapped and its frame
\* free for the next frame_alloc; no frame is released twice.
C4_FramesReleasedOnce == [](C4_Accounting) /\ [][C4_Release]_vars

\* a shrink_to that has just released the frame of a page
C4_Witness ==
    /\ panic = NoPanic
    /\ steps = 3
    /\ ret.op = "shrink_to" /\ ret.ok
    /\ Len(frame_allocator.recycled) > 0
    /\ Len(AreasOf(1)) = 1 /\ AreasOf(1)[1].end > AreasOf(1)[1].start

\* C5: every page in the range of an area of the list is mapped, with the
\* area's permission, to the frame the area holds for it (Framed) or to
\* the physical page of its own number (Identical).
C5_MapThenTranslate ==
    panic = NoPanic =>
        \A s \in Spaces : \A i \in 1 .. Len(AreasOf(s)) :
            LET area == AreasOf(s)[i]
            IN \A vpn \in AreaPages(area) :
                LET pte == translate(memory_sets[s], vpn)
                IN /\ pte.valid
                   /\ PermOf(pte) = area.map_perm
                   /\ IF area.map_type = Framed
                      THEN vpn \in DOMAIN area.data_frames /\ pte.ppn = area.data_frames[vpn]
                      ELSE pte.ppn = vpn

\* a space with an Identical area and a Framed area, one of which
\* grow_area has just extended
C5_Witness ==
    /\ panic = NoPanic
    /\ ret.op = "append_to" /\ ret.ok
    /\ \E i \in 1 .. Len(AreasOf(1)), j \in 1 .. Len(AreasOf(1)) :
        /\ AreasOf(1)[i].map_type = Identical /\ AreasOf(1)[i].end > AreasOf(1)[i].start
        /\ AreasOf(1)[j].map_type = Framed /\ AreasOf(1)[j].end > AreasOf(1)[j].start

\* clone_from has just returned: ret names the source and the clone
CloneDone == panic = NoPanic /\ ret.op = "from_existed_user"

\* the frames that back the pages of the Framed areas of space s
FramedPages(s) ==
    UNION {AreaPages(AreasOf(s)[i]) :
            i \in {j \in 1 .. Len(AreasOf(s)) : AreasOf(s)[j].map_type = Framed}}

\* C6: after clone_from every page that has a frame is backed by different
\* frames in the clone and in the source, and no frame of the allocator is
\* referenced by entries of both spaces (the trampoline's page and the
\* pages of Identical areas are no frames: they are mapped in both).
C6_CloneIsolation ==
    CloneDone =>
        LET src == memory_sets[ret.src]
            dst == memory_sets[ret.dst]
        IN /\ \A vpn \in FramedPages(ret.dst) :
                translate(dst, vpn).ppn # translate(src, vpn).ppn
           /\ \A v1 \in Vpns, v2 \in Vpns :
                (translate(src, v1).valid /\ translate(dst, v2).valid
                    /\ translate(src, v1).ppn \in Frames)
                => translate(src, v1).ppn # translate(dst, v2).ppn

\* C7: clone_from yields the same areas in the same order (range, policy,
\* permission), the trampoline mapped at its fixed place, every page with
\* the bytes the source page held when the clone was made, and leaves the
\* source as it was.
C7_CloneIsomorphic ==
    [][(ret'.op = "from_existed_user" /\ panic' = NoPanic) =>
        LET S == memory_sets[ret'.src]
            D == memory_sets'[ret'.dst]
        IN /\ Len(D.areas) = Len(S.areas)
           /\ \A i \in 1 .. Len(S.areas) :
                /\ D.areas[i].start = S.areas[i].start
                /\ D.areas[i].end = S.areas[i].end
                /\ D.areas[i].map_type = S.areas[i].map_type
                /\ D.areas[i].map_perm = S.areas[i].map_perm
           /\ translate(D, TrampolineVpn) = TrampolinePTE
           /\ \A vpn \in PagesOfAreas(S.areas) :
                /\ translate(D, vpn).valid
                /\ phys_mem'[translate(D, vpn).ppn] = phys_mem[translate(S, vpn).ppn]
                /\ phys_mem'[translate(S, vpn).ppn] = phys_mem[translate(S, vpn).ppn]
           /\ memory_sets'[ret'.src] = S]_vars

\* a clone of a space with two areas, one of them holding bytes that are
\* not zero
C7_Witness ==
    /\ CloneDone
    /\ Len(AreasOf(ret.src)) = 2
    /\ \E vpn \in PagesOfAreas(AreasOf(ret.src)) :
        phys_mem[translate(memory_sets[ret.src], vpn).ppn] # ZeroPage

\* ------------------------------------------------------------ claims on load_program
\* load_program has just returned the space 1
LoadDone == panic = NoPanic /\ ret.op = "from_elf"

\* the load segments of the image, in the order of the image
LoadIdx == {i \in 1 .. Len(image.elf.phs) : image.elf.phs[i].load}
SegEndVpn(ph) == ceil(ph.vaddr + ph.mem_size)
SetMax(S) == IF S = {} THEN 0 ELSE CHOOSE x \in S : \A y \in S : y <= x
MaxSegEndVpn == SetMax({SegEndVpn(image.elf.phs[i]) : i \in LoadIdx})

\* the areas load_program installs: the segments, then the stack
SegmentAreas == {AreasOf(1)[i] : i \in 1 .. Cardinality(LoadIdx)}
StackArea == AreasOf(1)[Cardinality(LoadIdx) + 1]

\* C8: the stack bottom lies one page above the highest end page of all
\* load segments, the stack top is bottom + stack size and is the stack
\* pointer returned, and the entry returned is the image's.
C8_StackAboveHighestSegment ==
    LoadDone =>
        LET bottom == (MaxSegEndVpn + 1) * PAGE_SIZE
            top == bottom + image.user_stack_size
        IN /\ ret.user_sp = top
           /\ ret.entry = image.elf.entry
           /\ StackArea.start = floor(bottom)
           /\ StackArea.end = ceil(top)

\* C9: for an image with a load segment whose stack ends below the trap
\* context, the page below the stack bottom is unmapped and in no area,
\* and every page of every load segment lies below it.
C9_GuardPageUnmapped ==
    (LoadDone /\ LoadIdx # {} /\ StackArea.end < floor(TrapCxVa)) =>
        LET guard == StackArea.start - 1
        IN /\ ~translate(memory_sets[1], guard).valid
           /\ guard \notin PagesOfAreas(AreasOf(1))
           /\ \A area \in SegmentAreas : \A vpn \in AreaPages(area) : vpn < guard

\* C10: when the image is malformed, load_program has created no
\* page-table entry and allocated no frame at the point where it fails.
C10_ValidationFirst ==
    panic \in {"elf_new", "invalid elf!", "elf_program_header"} =>
        /\ \A vpn \in Vpns : ~translate(memory_sets[1], vpn).valid
        /\ AllocatedFrames(frame_allocator) = {}

\* ------------------------------------------------------------ claims on lookups and boundaries
\* the call on space s with these arguments finds no area
Miss(s, start_vpn) == find_area(AreasOf(s), start_vpn) = 0

\* what a call returned tells that nothing was found
ReportsNotFound(r) == "found" \in DOMAIN r /\ ~r.found

\* a lookup miss leaves the space, the allocator and the memory as they are,
\* and shrink_to / append_to return false
C12_MissChangesNothing ==
    panic = NoPanic =>
        \A s \in Spaces : memory_sets[s].live =>
            /\ \A start_vpn \in UserVpns : Miss(s, start_vpn) =>
                    remove_area_with_start_vpn(WorldOf(s), start_vpn) = WorldOf(s)
            /\ \A start \in UserAddrs, new_end \in UserAddrs : Miss(s, floor(start)) =>
                /\ MemorySet_shrink_to(WorldOf(s), start, new_end)
                        = [w |-> WorldOf(s), ret |-> FALSE]
                /\ MemorySet_append_to(WorldOf(s), start, new_end)
                        = [w |-> WorldOf(s), ret |-> FALSE]

\* a remove_by_start that removed nothing reports "not found"
C12_RemoveReports ==
    (ret'.op = "remove_area_with_start_vpn" /\ panic' = NoPanic
        /\ memory_sets' = memory_sets) => ReportsNotFound(ret')

\* C12: when no area starts at the given page, remove_by_start reports
\* "not found", shrink_area and grow_area return false, and the area
\* list, the page table and the frames owned are as before the call.
C12_LookupMiss == [](C12_MissChangesNothing) /\ [][C12_RemoveReports]_vars

\* grow_area to page X, then shrink_area back to the end page the area had
RoundTrip(w, idx, X) ==
    LET area == w.ms.areas[idx]
        start == VirtAddr_from_vpn(area.start)
        grown == MemorySet_append_to(w, start, VirtAddr_from_vpn(X))
    IN [grown |-> grown.w,
        back |-> MemorySet_shrink_to(grown.w, start, VirtAddr_from_vpn(area.end)).w]

\* the areas the calls locate by their start page, and the pages X to grow to
Located(s) == {i \in 1 .. Len(AreasOf(s)) : find_area(AreasOf(s), AreasOf(s)[i].start) = i}
GrowTargets(area) == {X \in 0 .. (MaxUserVpn + 1) : X >= area.end}

\* C13: extend_to(X), X >= E, followed by shrink_to(E) restores the range
\* [start, E), the frames the area owns (none for [E, X)), leaves every
\* page of [E, X) unmapped and the frames and bytes of [start, E) as they
\* were.
C13_GrowShrinkRoundTrip ==
    panic = NoPanic =>
        \A s \in Spaces : \A idx \in Located(s) : \A X \in GrowTargets(AreasOf(s)[idx]) :
            LET w == WorldOf(s)
                r == RoundTrip(w, idx, X)
            IN r.back.panic = NoPanic =>
                /\ r.grown.ms.areas[idx].end = X
                /\ r.back.ms.areas = w.ms.areas
                /\ r.back.ms.page_table = w.ms.page_table
                /\ \A vpn \in AreasOf(s)[idx].end .. (X - 1) :
                        ~translate(r.back.ms, vpn).valid
                /\ AllocatedFrames(r.back.fa) = AllocatedFrames(w.fa)
                /\ \A f \in AllocatedFrames(w.fa) : r.back.mem[f] = w.mem[f]

\* a Framed area that holds bytes and can grow by a page and shrink back
C13_Witness ==
    /\ panic = NoPanic
    /\ \E idx \in Located(1) : \E X \in GrowTargets(AreasOf(1)[idx]) :
        LET area == AreasOf(1)[idx]
            r == RoundTrip(WorldOf(1), idx, X)
        IN /\ area.map_type = Framed /\ area.end > area.start /\ X > area.end
           /\ r.back.panic = NoPanic
           /\ translate(r.grown.ms, area.end).valid
           /\ \E vpn \in AreaPages(area) :
                phys_mem[translate(memory_sets[1], vpn).ppn] # ZeroPage

\* the areas of space s that a step left as they were, at their place
AreasKept(s) ==
    {i \in 1 .. Len(AreasOf(s)) :
        i <= Len(AreasOf(s)') /\ AreasOf(s)'[i] = AreasOf(s)[i]}

\* C18: shrink_area and grow_area change no page-table entry of a page of
\* another area nor the trampoline's, and an out-of-order boundary is
\* signalled before any page-table entry or frame changes.
C18_ResizeTouchesOnlyItsArea ==
    [][ret'.op \in {"shrink_to", "append_to"} =>
        \A s \in Spaces :
            /\ panic' = "vpn_range" =>
                (memory_sets'[s] = memory_sets[s] /\ frame_allocator' = frame_allocator)
            /\ translate(memory_sets'[s], TrampolineVpn)
                    = translate(memory_sets[s], TrampolineVpn)
            /\ \A i \in AreasKept(s) : \A vpn \in AreaPages(AreasOf(s)[i]) :
                    translate(memory_sets'[s], vpn) = translate(memory_sets[s], vpn)]_vars

\* ------------------------------------------------------------ claims on copy_data
\* an install with data has just been made / has just returned
CopyStep == ret'.op = "push_framed_with_data"

\* index of the byte of the data that goes to offset off of page vpn
ByteIndex(vpn, off) == (vpn - ret'.start) * PAGE_SIZE + off

\* the pages of the area the step installed
NewPages == ret'.start .. (ret'.start + ret'.pages - 1)

\* the byte the claim puts at offset off of the page vpn maps to
ExpectedByte(vpn, off) ==
    IF vpn >= ret'.start /\ ByteIndex(vpn, off) < ret'.len
    THEN SourceByte(ByteIndex(vpn, off))
    ELSE IF vpn \in NewPages THEN 0
    ELSE phys_mem[translate(memory_sets[1], vpn).ppn][off]

\* C14: copy_data writes byte i of the data to offset i mod PAGE_SIZE of
\* page start + i div PAGE_SIZE for every i below the length and nothing
\* else: the rest of the last page and the pages beyond keep their zeroes,
\* and the bytes of every other page and frame stay as they were.
C14_CopyPlacesBytes ==
    [][(CopyStep /\ panic' = NoPanic) =>
        /\ \A vpn \in Vpns : translate(memory_sets'[1], vpn).valid =>
            \A off \in SampleOffs :
                phys_mem'[translate(memory_sets'[1], vpn).ppn][off] = ExpectedByte(vpn, off)
        /\ \A p \in Ppns :
            (\A vpn \in Vpns : translate(memory_sets'[1], vpn).ppn # p)
                => phys_mem'[p] = phys_mem[p]]_vars

\* 4097 bytes copied into an area of two pages
C14_Witness ==
    /\ panic = NoPanic
    /\ ret.op = "push_framed_with_data"
    /\ ret.pages = 2 /\ ret.len = PAGE_SIZE + 1
    /\ phys_mem[translate(memory_sets[1], ret.start + 1).ppn][0] = SourceByte(PAGE_SIZE)
    /\ phys_mem[translate(memory_sets[1], ret.start + 1).ppn][PAGE_SIZE - 1] = 0

\* the panics copy_data raises
CopyPanics == {"copy_data_unwrap", "copy_data_assert"}

\* C15: copy_data fails when the data is longer than the pages of the area
\* hold, whatever lies above the area, and does not fail when it fits.
C15_CopyChecksCapacity ==
    [][CopyStep =>
        /\ ret'.len > ret'.pages * PAGE_SIZE => panic' # NoPanic
        /\ ret'.len <= ret'.pages * PAGE_SIZE => panic' \notin CopyPanics]_vars

\* ------------------------------------------------------------ claims on a loaded space
TrapCxVpn == floor(TrapCxVa)

\* the trampoline's entry in space s is the one map_trampoline created
TrampolineInPlace(s) ==
    /\ translate(memory_sets[s], TrampolineVpn) = TrampolinePTE
    /\ HasBit(TrampolinePTE.flags, PERM_R) /\ HasBit(TrampolinePTE.flags, PERM_X)
    /\ ~HasBit(TrampolinePTE.flags, PERM_U)

\* C11: in a space made by load_program or clone_from, after every install,
\* remove_by_start, shrink_area, grow_area and drop_all_areas that
\* returned, the trampoline page is mapped to the trampoline's physical
\* page with R+X and without U, lies in no area, and its physical page is
\* not a frame of the allocator, free or not.
C11_TrampolineStays ==
    panic = NoPanic =>
        /\ \A s \in Spaces : memory_sets[s].live =>
            /\ TrampolineInPlace(s)
            /\ TrampolineVpn \notin PagesOfAreas(AreasOf(s))
        /\ floor(TrampolinePa) \notin AllocatedFrames(frame_allocator)
        /\ ~InSeq(floor(TrampolinePa), frame_allocator.recycled)

\* a loaded space of which a clone was made and whose areas were then dropped
C11_Witness ==
    /\ panic = NoPanic
    /\ memory_sets[1].live /\ memory_sets[2].live
    /\ AreasOf(1) = << >>
    /\ ret.op = "recycle_data_pages"
    /\ TrampolineInPlace(1) /\ TrampolineInPlace(2)

\* the number of segment areas of the image, and the area pushed at the
\* stack top
NSeg == Cardinality(LoadIdx)
StackTopArea == AreasOf(1)[NSeg + 2]

\* grow_area by one page at the stack top, in the space just loaded
GrowAtStackTop ==
    MemorySet_append_to(WorldOf(1), ret.user_sp, ret.user_sp + PAGE_SIZE).w

\* C16: once load_program has installed the segments and the stack, the
\* area it pushes at the stack top is installed without failure, has no
\* page and no frame and shares no page with the stack; grow_area at the
\* stack top's page then extends this area and leaves the stack as it is.
C16_StackTopAreaEmpty ==
    (ret.op = "from_elf" /\ Len(AreasOf(1)) >= NSeg + 1) =>
        /\ Len(AreasOf(1)) >= NSeg + 2
        /\ StackTopArea.start = StackTopArea.end
        /\ DOMAIN StackTopArea.data_frames = {}
        /\ AreaPages(StackTopArea) \cap AreaPages(StackArea) = {}
        /\ (panic = NoPanic /\ GrowAtStackTop.panic = NoPanic) =>
            /\ GrowAtStackTop.ms.areas[NSeg + 1] = StackArea
            /\ GrowAtStackTop.ms.areas[NSeg + 2].start = StackTopArea.start
            /\ GrowAtStackTop.ms.areas[NSeg + 2].end = StackTopArea.start + 1

TrapCxArea == AreasOf(1)[NSeg + 3]

UniqueStarts(areas) ==
    \A i \in 1 .. Len(areas), j \in 1 .. Len(areas) :
        i # j => /\ areas[i].start # areas[j].start
                 /\ AreaPages(areas[i]) \cap AreaPages(areas[j]) = {}

\* C19: the areas of the space load_program returns have different start
\* pages and disjoint ranges, and grow_area, shrink_area and
\* remove_by_start keep it so.
C19_StartsUnique ==
    [][(panic' = NoPanic
        /\ \/ ret'.op = "from_elf"
           \/ /\ ret'.op \in {"append_to", "shrink_to", "remove_area_with_start_vpn"}
              /\ UniqueStarts(AreasOf(1)))
        => UniqueStarts(AreasOf(1)')]_vars

====
